---- MODULE Spec2Model ----
(***************************************************************************)
(* Class-based reference counting (include/linux/refcount.h).              *)
(*                                                                         *)
(* A refcount_t holds a global atomic counter and a list of classes; a     *)
(* refcount_class_t holds a key, its own atomic counter and a pointer to   *)
(* the refcount_t it belongs to.  refcount_inc / refcount_add /            *)
(* refcount_dec / refcount_dec_and_test are sequences of individually      *)
(* atomic steps (atomic_inc, atomic_add, atomic_dec, atomic_read); a       *)
(* thread's position inside such a sequence is its pc.  The list handling  *)
(* functions (refcount_get, refcount_class_get, refcount_destroy) run      *)
(* under the caller's lock (refcount.h:51-55) and are one step each.       *)
(***************************************************************************)
EXTENDS Integers, Sequences, FiniteSets, TLC

\* ---------------------------------------------------------------- bounds
NumRC       == 2
MaxOps      == 3
MaxCount    == 2
MaxNeg      == 1
MaxWarn     == 2

\* ------------------------------------------------------ program constants
REFCOUNT_KEY_MAX == 20

\* The threads of the concurrent specifications, and those of the one that
\* needs three.
Threads     == {1, 2}
RaceThreads == {1, 2, 3}
AllThreads  == Threads \cup RaceThreads

\* The refcount_t objects the allocator can hand out, and the one the
\* concurrent specifications work on.
RCs      == 1..NumRC
OneRC    == {1}

\* The refcount_class_t objects the allocator can hand out.
Classes  == {1, 2}

NoRC     == 0
NoClass  == 0

\* Keys a caller may pass: C strings, as sequences of non-NUL characters.
\* KeyX1 and KeyX2 are 21 characters long and differ in the last one only.
KeyA  == <<65>>
KeyB  == <<66>>
KeyX1 == [i \in 1..(REFCOUNT_KEY_MAX + 1) |-> IF i <= REFCOUNT_KEY_MAX THEN 97 ELSE 120]
KeyX2 == [i \in 1..(REFCOUNT_KEY_MAX + 1) |-> IF i <= REFCOUNT_KEY_MAX THEN 97 ELSE 121]
Keys  == {KeyA, KeyB, KeyX1, KeyX2}

\* The deltas refcount_add is called with.
NonNegDeltas == {2}
AllDeltas    == NonNegDeltas \cup {-1}

VARIABLES
  rcLive,     \* rcLive[r]: the refcount_t r is allocated
  rcRef,      \* rc->ref
  rcTable,    \* rc->table, head first
  clsLive,    \* clsLive[c]: the refcount_class_t c is allocated
  clsKey,     \* rcc->key, REFCOUNT_KEY_MAX characters
  clsRef,     \* rcc->ref
  clsGlobal,  \* rcc->global
  pc,         \* pc[t]: the line thread t executes next
  loc,        \* loc[t]: the locals of the call thread t is in
  warned,     \* warned[c]: refcount_warn calls made for class c
  net,        \* net[c]: sum of the deltas the calls on class c asked for
  scen,       \* how far the calls made so far follow ScenOps, ScenOff if they do not
  budget      \* counter operations the callers may still start

vars == <<rcLive, rcRef, rcTable, clsLive, clsKey, clsRef, clsGlobal,
          pc, loc, warned, net, scen, budget>>

rcVars   == <<rcLive, rcTable>>
clsVars  == <<clsLive, clsKey, clsGlobal>>

\* ------------------------------------------------------------- strings
\* The character a C string holds at index i (1-based); NUL after its end.
CharAt(s, i) == IF i <= Len(s) THEN s[i] ELSE 0

\* strncpy(dst, src, n): n characters of src, NUL padded; no terminator if
\* src has n characters or more.
Strncpy(src, n) == [i \in 1..n |-> CharAt(src, i)]

\* strncmp(a, b, n): compares at most n characters, stops after a NUL.
RECURSIVE StrncmpFrom(_, _, _, _)
StrncmpFrom(a, b, i, n) ==
  IF i > n THEN 0
  ELSE IF CharAt(a, i) # CharAt(b, i)
       THEN (IF CharAt(a, i) < CharAt(b, i) THEN -1 ELSE 1)
       ELSE IF CharAt(a, i) = 0 THEN 0
            ELSE StrncmpFrom(a, b, i + 1, n)

Strncmp(a, b, n) == StrncmpFrom(a, b, 1, n)

ZeroKey == [i \in 1..REFCOUNT_KEY_MAX |-> 0]

\* --------------------------------------------------------------- locals
\* rcc, n: the arguments; test: the call is refcount_dec_and_test; obs: the
\* value BUG_ON read; ret: the value returned.  ownNeg, after and dirty
\* describe the call for the properties below: its own atomic_dec left the
\* class count negative; the global count when its refcount_dec returned;
\* another thread changed the global count since then.
Idle == [rcc |-> NoClass, n |-> 0, test |-> FALSE, obs |-> 0, ret |-> FALSE,
         ownNeg |-> FALSE, after |-> 0, dirty |-> FALSE]

Frame(c, n, test) == [Idle EXCEPT !.rcc = c, !.n = n, !.test = test]

\* ------------------------------------------------------------- scenario
\* The calls of the two-class scenario, in order: (operation, key).
ScenOps == << <<"inc", KeyA>>, <<"inc", KeyA>>, <<"inc", KeyB>>,
              <<"dec", KeyB>>, <<"dec", KeyB>> >>

\* The value of scen once the calls have left the scenario.
ScenOff == Len(ScenOps) + 1

ScenNext(k, op, c) ==
  IF k >= 0 /\ k < Len(ScenOps)
     /\ ScenOps[k + 1][1] = op
     /\ clsKey[c] = Strncpy(ScenOps[k + 1][2], REFCOUNT_KEY_MAX)
     /\ clsGlobal[c] = 1
  THEN k + 1 ELSE ScenOff

\* Bookkeeping of a call of operation op with delta d on class c.  Callers
\* keep the class count within -MaxNeg..MaxCount, stop calling refcount_dec
\* on a class that was warned about MaxWarn times, and make budget calls in
\* all; a negative budget is no limit.
Called(op, c, d) ==
  /\ budget # 0
  /\ budget' = IF budget > 0 THEN budget - 1 ELSE budget
  /\ clsRef[c] + d >= -MaxNeg
  /\ clsRef[c] + d <= MaxCount
  /\ (d < 0 /\ clsRef[c] + d < 0) => warned[c] < MaxWarn
  /\ net' = [net EXCEPT ![c] = @ + d]
  /\ scen' = ScenNext(scen, op, c)

Internal == UNCHANGED <<net, scen, budget>>

\* ---------------------------------------------------------------- Init
InitWith(b, k) ==
  /\ rcLive = [r \in RCs |-> FALSE]
  /\ rcRef = [r \in RCs |-> 0]
  /\ rcTable = [r \in RCs |-> << >>]
  /\ clsLive = [c \in Classes |-> FALSE]
  /\ clsKey = [c \in Classes |-> ZeroKey]
  /\ clsRef = [c \in Classes |-> 0]
  /\ clsGlobal = [c \in Classes |-> NoRC]
  /\ pc = [t \in AllThreads |-> "idle"]
  /\ loc = [t \in AllThreads |-> Idle]
  /\ warned = [c \in Classes |-> 0]
  /\ net = [c \in Classes |-> 0]
  /\ scen = k
  /\ budget = b

Init == InitWith(MaxOps, ScenOff)

\* ------------------------------------------------------------ accessors
\* refcount_read
refcount_read(r) == rcRef[r]

\* refcount_class_read
refcount_class_read(c) == clsRef[c]

\* The classes of rc->table, as a set.
TableSet(r) == {rcTable[r][i] : i \in 1..Len(rcTable[r])}

\* Threads inside a call on a class of r.
InFlight(r) == {t \in AllThreads : pc[t] # "idle" /\ pc[t] # "BUG"
                                /\ loc[t].rcc # NoClass
                                /\ clsGlobal[loc[t].rcc] = r}

\* ------------------------------------------------------------ lifecycle
\* refcount_get: kzalloc, atomic_set(&rc->ref, 0), INIT_HLIST_HEAD.
refcount_get(R) ==
  /\ \E r \in R :
       /\ ~rcLive[r]
       /\ \A q \in R : q < r => rcLive[q]
       /\ rcLive' = [rcLive EXCEPT ![r] = TRUE]
       /\ rcRef' = [rcRef EXCEPT ![r] = 0]
       /\ rcTable' = [rcTable EXCEPT ![r] = << >>]
  /\ UNCHANGED <<clsLive, clsKey, clsRef, clsGlobal, pc, loc, warned, net, scen, budget>>

\* The test of the scan with the sense of strncmp's result inverted.
KeyMatches_Inverted(stored, key) == Strncmp(stored, key, REFCOUNT_KEY_MAX) # 0

\* The test of the scan comparing one character more than the class holds.
KeyMatches_OneMore(stored, key) == Strncmp(stored, key, REFCOUNT_KEY_MAX + 1) = 0

\* line 95: the test of the scan, on a stored key and the key looked for.
KeyMatches(stored, key) == Strncmp(stored, key, REFCOUNT_KEY_MAX) = 0

\* lines 94-96: the first match of the scan of table tbl for key, the classes
\* holding the keys keyOf; NoClass if there is none.
RECURSIVE ScanFrom(_, _, _, _)
ScanFrom(tbl, keyOf, key, i) ==
  IF i > Len(tbl) THEN NoClass
  ELSE IF KeyMatches(keyOf[tbl[i]], key) THEN tbl[i]
       ELSE ScanFrom(tbl, keyOf, key, i + 1)

Lookup(r, key) == ScanFrom(rcTable[r], clsKey, key, 1)

\* The key refcount_class_init stores.
StoredKey(key) == Strncpy(key, REFCOUNT_KEY_MAX)

\* refcount_class_init: a fresh class c of parent r with key.
refcount_class_init(c, r, key) ==
  /\ clsLive' = [clsLive EXCEPT ![c] = TRUE]
  /\ clsRef' = [clsRef EXCEPT ![c] = 0]
  /\ clsGlobal' = [clsGlobal EXCEPT ![c] = r]
  /\ clsKey' = [clsKey EXCEPT ![c] = StoredKey(key)]
  /\ warned' = [warned EXCEPT ![c] = 0]
  /\ net' = [net EXCEPT ![c] = 0]

\* An insertion that sets the head and loses the rest of the list.
Inserted_HeadOnly(r, c) == <<c>>

\* The table after refcount_class_get(r, key) found no match and made c.
Inserted(r, c) == <<c>> \o rcTable[r]

\* The object kzalloc hands out next, NoClass when the allocator has none.
FreeClass ==
  IF \A c \in Classes : clsLive[c] THEN NoClass
  ELSE CHOOSE c \in Classes : ~clsLive[c] /\ \A d \in Classes : d < c => clsLive[d]

\* refcount_class_get(rc, key), rc in R and key in K.
refcount_class_get(R, K) ==
  /\ \E r \in R, key \in K :
       /\ rcLive[r]
       /\ IF Lookup(r, key) # NoClass
          THEN UNCHANGED <<rcTable, clsLive, clsKey, clsRef, clsGlobal, warned, net>>
          ELSE /\ FreeClass # NoClass
               /\ refcount_class_init(FreeClass, r, key)
               /\ rcTable' = [rcTable EXCEPT ![r] = Inserted(r, FreeClass)]
  /\ UNCHANGED <<rcLive, rcRef, pc, loc, scen, budget>>

\* refcount_destroy without the loop of lines 107-108: rc is freed, its
\* classes are not.
refcount_destroy_RcOnly ==
  /\ \E r \in RCs :
       /\ rcLive[r]
       /\ InFlight(r) = {}
       /\ rcLive' = [rcLive EXCEPT ![r] = FALSE]
       /\ rcRef' = [rcRef EXCEPT ![r] = 0]
       /\ rcTable' = [rcTable EXCEPT ![r] = << >>]
       /\ scen' = ScenOff
  /\ UNCHANGED <<clsLive, clsKey, clsRef, clsGlobal, warned, net, pc, loc, budget>>

\* refcount_destroy(rc): kfree of every class of the table, then of rc.
\* The caller guarantees that no operation is in flight on rc.
refcount_destroy ==
  /\ \E r \in RCs :
       /\ rcLive[r]
       /\ InFlight(r) = {}
       /\ rcLive' = [rcLive EXCEPT ![r] = FALSE]
       /\ rcRef' = [rcRef EXCEPT ![r] = 0]
       /\ rcTable' = [rcTable EXCEPT ![r] = << >>]
       /\ scen' = ScenOff
       /\ clsLive' = [c \in Classes |-> clsLive[c] /\ c \notin TableSet(r)]
       /\ clsKey' = [c \in Classes |-> IF c \in TableSet(r) THEN ZeroKey ELSE clsKey[c]]
       /\ clsRef' = [c \in Classes |-> IF c \in TableSet(r) THEN 0 ELSE clsRef[c]]
       /\ clsGlobal' = [c \in Classes |-> IF c \in TableSet(r) THEN NoRC ELSE clsGlobal[c]]
       /\ warned' = [c \in Classes |-> IF c \in TableSet(r) THEN 0 ELSE warned[c]]
       /\ net' = [c \in Classes |-> IF c \in TableSet(r) THEN 0 ELSE net[c]]
  /\ UNCHANGED <<pc, loc, budget>>

Lifecycle(R, K) == refcount_get(R) \/ refcount_class_get(R, K) \/ refcount_destroy

\* The locals after thread u changed the global count of r and its own
\* locals became mine: the calls of the other threads that wait at line 171
\* for r have seen the global count change.
Touched(u, r, mine) ==
  [t \in AllThreads |->
     IF t = u THEN mine
     ELSE IF pc[t] = "test_read" /\ clsGlobal[loc[t].rcc] = r
          THEN [loc[t] EXCEPT !.dirty = TRUE]
          ELSE loc[t]]

\* --------------------------------------------------------- refcount_inc
\* refcount_inc with its two lines exchanged: the global count goes first.
refcount_inc_class_GlobalFirst(t) ==
  /\ pc[t] = "idle"
  /\ \E c \in Classes :
       /\ clsLive[c]
       /\ Called("inc", c, 1)
       /\ rcRef' = [rcRef EXCEPT ![clsGlobal[c]] = @ + 1]
       /\ loc' = [loc EXCEPT ![t] = Frame(c, 1, FALSE)]
  /\ pc' = [pc EXCEPT ![t] = "inc_global"]
  /\ UNCHANGED <<rcVars, clsRef, clsVars, warned>>

\* line 130: atomic_inc(&rcc->ref)
refcount_inc_class(t) ==
  /\ pc[t] = "idle"
  /\ \E c \in Classes :
       /\ clsLive[c]
       /\ Called("inc", c, 1)
       /\ clsRef' = [clsRef EXCEPT ![c] = @ + 1]
       /\ loc' = [loc EXCEPT ![t] = Frame(c, 1, FALSE)]
  /\ pc' = [pc EXCEPT ![t] = "inc_global"]
  /\ UNCHANGED <<rcVars, rcRef, clsVars, warned>>

\* Line 131 on a counter shared by all refcount_t objects.
refcount_inc_global_Every(t) ==
  /\ pc[t] = "inc_global"
  /\ rcRef' = [r \in RCs |-> IF rcLive[r] THEN rcRef[r] + 1 ELSE rcRef[r]]
  /\ pc' = [pc EXCEPT ![t] = "idle"]
  /\ loc' = Touched(t, clsGlobal[loc[t].rcc], Idle)
  /\ Internal
  /\ UNCHANGED <<rcVars, clsVars, clsRef, warned>>

\* line 131: atomic_inc(&rcc->global->ref)
refcount_inc_global(t) ==
  /\ pc[t] = "inc_global"
  /\ rcRef' = [rcRef EXCEPT ![clsGlobal[loc[t].rcc]] = @ + 1]
  /\ pc' = [pc EXCEPT ![t] = "idle"]
  /\ loc' = Touched(t, clsGlobal[loc[t].rcc], Idle)
  /\ Internal
  /\ UNCHANGED <<rcVars, clsVars, clsRef, warned>>

\* --------------------------------------------------------- refcount_add
\* line 137: atomic_add(source, &dest->ref)
refcount_add_class(t, D) ==
  /\ pc[t] = "idle"
  /\ \E c \in Classes, n \in D :
       /\ clsLive[c]
       /\ Called("add", c, n)
       /\ clsRef' = [clsRef EXCEPT ![c] = @ + n]
       /\ loc' = [loc EXCEPT ![t] = Frame(c, n, FALSE)]
  /\ pc' = [pc EXCEPT ![t] = "add_global"]
  /\ UNCHANGED <<rcVars, rcRef, clsVars, warned>>

\* Line 138 written like line 131: the global count goes up by one.
refcount_add_global_One(t) ==
  /\ pc[t] = "add_global"
  /\ rcRef' = [rcRef EXCEPT ![clsGlobal[loc[t].rcc]] = @ + 1]
  /\ pc' = [pc EXCEPT ![t] = "idle"]
  /\ loc' = Touched(t, clsGlobal[loc[t].rcc], Idle)
  /\ Internal
  /\ UNCHANGED <<rcVars, clsVars, clsRef, warned>>

\* Line 138 with a validation: the global count is not taken below zero.
refcount_add_global_Clamped(t) ==
  /\ pc[t] = "add_global"
  /\ rcRef' = [rcRef EXCEPT ![clsGlobal[loc[t].rcc]] =
                  IF @ + loc[t].n < 0 THEN 0 ELSE @ + loc[t].n]
  /\ pc' = [pc EXCEPT ![t] = "idle"]
  /\ loc' = Touched(t, clsGlobal[loc[t].rcc], Idle)
  /\ Internal
  /\ UNCHANGED <<rcVars, clsVars, clsRef, warned>>

\* line 138: atomic_add(source, &dest->global->ref)
refcount_add_global(t) ==
  /\ pc[t] = "add_global"
  /\ rcRef' = [rcRef EXCEPT ![clsGlobal[loc[t].rcc]] = @ + loc[t].n]
  /\ pc' = [pc EXCEPT ![t] = "idle"]
  /\ loc' = Touched(t, clsGlobal[loc[t].rcc], Idle)
  /\ Internal
  /\ UNCHANGED <<rcVars, clsVars, clsRef, warned>>

\* --------------------------------------------------------- refcount_dec
\* Where a call goes when refcount_dec returns: back to the caller, or to
\* the read of refcount_dec_and_test (line 171).
AfterDec(t) == IF loc[t].test THEN "test_read" ELSE "idle"

\* line 150: atomic_dec(&rcc->ref); test tells refcount_dec_and_test from
\* refcount_dec.
refcount_dec_class(t) ==
  /\ pc[t] = "idle"
  /\ \E c \in Classes, test \in BOOLEAN :
       /\ clsLive[c]
       /\ Called("dec", c, -1)
       /\ clsRef' = [clsRef EXCEPT ![c] = @ - 1]
       /\ loc' = [loc EXCEPT ![t] = [Frame(c, -1, test) EXCEPT !.ownNeg = (clsRef[c] - 1 < 0)]]
  /\ pc' = [pc EXCEPT ![t] = "dec_check"]
  /\ UNCHANGED <<rcVars, rcRef, clsVars, warned>>

\* line 158: the imbalance test.
Imbalanced(c) == refcount_class_read(c) < 0

\* Lines 158-160 without the goto: the warning is made and the call goes on
\* to the global count.
refcount_dec_check_NoGoto(t) ==
  /\ pc[t] = "dec_check"
  /\ warned' = IF Imbalanced(loc[t].rcc)
               THEN [warned EXCEPT ![loc[t].rcc] = @ + 1] ELSE warned
  /\ pc' = [pc EXCEPT ![t] = "dec_bugon"]
  /\ Internal
  /\ UNCHANGED <<rcVars, rcRef, clsVars, clsRef, loc>>

\* lines 158-160: if (refcount_class_read(rcc) < 0) { refcount_warn; goto out; }
refcount_dec_check(t) ==
  /\ pc[t] = "dec_check"
  /\ IF Imbalanced(loc[t].rcc)
     THEN /\ warned' = [warned EXCEPT ![loc[t].rcc] = @ + 1]
          /\ pc' = [pc EXCEPT ![t] = AfterDec(t)]
          /\ loc' = [loc EXCEPT ![t] = IF loc[t].test
                                        THEN [@ EXCEPT !.after = rcRef[clsGlobal[loc[t].rcc]]]
                                        ELSE Idle]
     ELSE /\ pc' = [pc EXCEPT ![t] = "dec_bugon"]
          /\ UNCHANGED <<warned, loc>>
  /\ Internal
  /\ UNCHANGED <<rcVars, rcRef, clsVars, clsRef>>

\* The condition of BUG_ON with < for <=.
BugCondition_Strict(r) == refcount_read(r) < 0

\* line 162: the condition of BUG_ON.
BugCondition(r) == refcount_read(r) <= 0

\* line 162: BUG_ON(refcount_read(rcc->global) <= 0); BUG() does not return.
refcount_dec_bugon(t) ==
  /\ pc[t] = "dec_bugon"
  /\ pc' = [pc EXCEPT ![t] = IF BugCondition(clsGlobal[loc[t].rcc])
                             THEN "BUG" ELSE "dec_global"]
  /\ loc' = [loc EXCEPT ![t].obs = refcount_read(clsGlobal[loc[t].rcc])]
  /\ Internal
  /\ UNCHANGED <<rcVars, rcRef, clsVars, clsRef, warned>>

\* line 163: atomic_dec(&rcc->global->ref)
refcount_dec_global(t) ==
  /\ pc[t] = "dec_global"
  /\ rcRef' = [rcRef EXCEPT ![clsGlobal[loc[t].rcc]] = @ - 1]
  /\ pc' = [pc EXCEPT ![t] = AfterDec(t)]
  /\ loc' = Touched(t, clsGlobal[loc[t].rcc],
                     IF loc[t].test
                     THEN [loc[t] EXCEPT !.after = rcRef[clsGlobal[loc[t].rcc]] - 1]
                     ELSE Idle)
  /\ Internal
  /\ UNCHANGED <<rcVars, clsVars, clsRef, warned>>

\* ------------------------------------------------ refcount_dec_and_test
\* The test of line 171 inverted.
TestResult_Inverted(r) == refcount_read(r) # 0

\* line 171: what refcount_dec_and_test returns.
TestResult(r) == refcount_read(r) = 0

\* line 171: return refcount_read(rcc->global) == 0
refcount_dec_and_test_read(t) ==
  /\ pc[t] = "test_read"
  /\ loc' = [loc EXCEPT ![t].ret = TestResult(clsGlobal[loc[t].rcc])]
  /\ pc' = [pc EXCEPT ![t] = "test_ret"]
  /\ Internal
  /\ UNCHANGED <<rcVars, rcRef, clsVars, clsRef, warned>>

\* The caller takes the result of refcount_dec_and_test.
refcount_dec_and_test_return(t) ==
  /\ pc[t] = "test_ret"
  /\ pc' = [pc EXCEPT ![t] = "idle"]
  /\ loc' = [loc EXCEPT ![t] = Idle]
  /\ Internal
  /\ UNCHANGED <<rcVars, rcRef, clsVars, clsRef, warned>>

\* ------------------------------------------------------- specifications
\* A step of thread t, refcount_add being called with deltas of D.
ThreadStep(t, D) ==
  \/ refcount_inc_class(t)
  \/ refcount_inc_global(t)
  \/ refcount_add_class(t, D)
  \/ refcount_add_global(t)
  \/ refcount_dec_class(t)
  \/ refcount_dec_check(t)
  \/ refcount_dec_bugon(t)
  \/ refcount_dec_global(t)
  \/ refcount_dec_and_test_read(t)
  \/ refcount_dec_and_test_return(t)

\* Threads running concurrently on one refcount_t, refcount_add with
\* n >= 0 only, MaxOps calls.
Next == Lifecycle(OneRC, Keys) \/ \E t \in Threads : ThreadStep(t, NonNegDeltas)

Spec == Init /\ [][Next]_vars

\* The same, refcount_add with any delta.
NextAnyDelta == Lifecycle(OneRC, Keys) \/ \E t \in Threads : ThreadStep(t, AllDeltas)

SpecAnyDelta == Init /\ [][NextAnyDelta]_vars

\* Three threads on one class, refcount_add with n >= 0 only, one more call.
InitRace == InitWith(MaxOps + 1, ScenOff)

NextRace ==
  Lifecycle(OneRC, {KeyA}) \/ \E t \in RaceThreads : ThreadStep(t, NonNegDeltas)

SpecRace == InitRace /\ [][NextRace]_vars

\* Operations executed one at a time on any refcount_t, refcount_add with
\* n >= 0 only, any number of calls.
InitSeq == InitWith(-1, 0)

NextSeq ==
  \/ (pc[1] = "idle" /\ Lifecycle(RCs, Keys))
  \/ ThreadStep(1, NonNegDeltas)

SpecSeq == InitSeq /\ [][NextSeq]_vars

\* Operations executed one at a time on one refcount_t, two calls of
\* counter operations: the sequences of refcount_get, refcount_class_get
\* and refcount_destroy calls.
InitLife == InitWith(2, ScenOff)

NextLife ==
  \/ (pc[1] = "idle" /\ Lifecycle(OneRC, Keys))
  \/ ThreadStep(1, NonNegDeltas)

SpecLife == InitLife /\ [][NextLife]_vars

\* The same on any refcount_t.
SpecFrame == InitLife /\ [][NextSeq]_vars

\* ================================================================ claims
\* The refcount_t a call of thread t works on.
RcOf(t) == clsGlobal[loc[t].rcc]

\* Thread t takes the step that leaves line p.
Leaves(t, p) == pc[t] = p /\ pc'[t] # p

\* ------------------------------------------------------------------- C1
\* C1: the global count of a live refcount_t is >= 0 in every reachable
\* state, under any interleaving of the atomic steps of refcount_inc,
\* refcount_add with n >= 0, refcount_dec and refcount_dec_and_test.
C1_GlobalNeverNegative == \A r \in RCs : rcLive[r] => rcRef[r] >= 0

\* ------------------------------------------------------------------- C2
\* C2: a refcount_dec whose own atomic_dec took the class count below zero
\* does not decrement the global count.
C2_ImbalancedDecLeavesGlobal ==
  [][\A t \in AllThreads :
       (Leaves(t, "dec_global") /\ rcRef'[RcOf(t)] < rcRef[RcOf(t)])
         => ~loc[t].ownNeg]_vars

\* ------------------------------------------------------------------- C3
\* C3: a refcount_dec emits a diagnostic exactly when its own atomic_dec
\* produced a negative class count, and then exactly one.
C3_OneWarningPerNegativeDec ==
  [][\A t \in AllThreads :
       Leaves(t, "dec_check")
         => /\ loc[t].ownNeg => warned'[loc[t].rcc] = warned[loc[t].rcc] + 1
            /\ ~loc[t].ownNeg => warned' = warned]_vars

\* ------------------------------------------------------------------- C4
\* C4 as claimed: refcount_dec_and_test returns true iff the global count
\* was 0 immediately after its internal refcount_dec, in every interleaving.
C4_ReturnsZeroAfterDec ==
  \A t \in AllThreads :
    pc[t] = "test_ret" => (loc[t].ret <=> loc[t].after = 0)

\* C4 as amended: refcount_dec_and_test returns true iff the global count
\* was 0 immediately after its internal refcount_dec, provided no other
\* thread changed the global count between that moment and the call's read
\* of it at line 171.
C4_ReturnsZeroAfterDecUndisturbed ==
  \A t \in AllThreads :
    (pc[t] = "test_ret" /\ ~loc[t].dirty) => (loc[t].ret <=> loc[t].after = 0)

\* Two calls have returned, one true and one false, each with nothing
\* between its refcount_dec and its read.
C4_Witness ==
  \E t, u \in AllThreads :
    /\ pc[t] = "test_ret" /\ ~loc[t].dirty /\ loc[t].ret
    /\ pc[u] = "test_ret" /\ ~loc[u].dirty /\ ~loc[u].ret

\* ------------------------------------------------------------------- C5
\* The table, the stored keys and the allocated classes after a call
\* refcount_class_get(r, key) whose scan found hit.
TableAfterGet(r, hit) ==
  IF hit # NoClass THEN rcTable[r] ELSE Inserted(r, FreeClass)

KeysAfterGet(key, hit) ==
  IF hit # NoClass THEN clsKey ELSE [clsKey EXCEPT ![FreeClass] = StoredKey(key)]

LiveAfterGet(hit) ==
  IF hit # NoClass THEN {c \in Classes : clsLive[c]}
  ELSE {c \in Classes : clsLive[c]} \cup {FreeClass}

\* What a call refcount_class_get(r, key) returns when the table is tbl,
\* the stored keys are keyOf and the allocated classes are live; NoClass if
\* the scan finds no match and kzalloc has no class to hand out.
GetIn(tbl, keyOf, live, key) ==
  LET found == ScanFrom(tbl, keyOf, key, 1)
  IN IF found # NoClass THEN found
     ELSE IF live = Classes THEN NoClass
          ELSE CHOOSE c \in Classes \ live : \A d \in Classes \ live : c <= d

\* Two keys differ in one of their first REFCOUNT_KEY_MAX characters.
DifferEarly(k1, k2) ==
  \E i \in 1..REFCOUNT_KEY_MAX : CharAt(k1, i) # CharAt(k2, i)

\* Whether the results of refcount_class_get(r, k1) and of
\* refcount_class_get(r, k2) made right after it are related as Rel says,
\* for every r and every keys for which the two calls can run.
TwoGets(Rel(_, _, _, _)) ==
  \A r \in RCs :
    rcLive[r] =>
      \A k1 \in Keys :
        \A hit \in {Lookup(r, k1)} :
          \A first \in {IF hit # NoClass THEN hit ELSE FreeClass} :
            first # NoClass =>
              \A tbl \in {TableAfterGet(r, hit)}, keyOf \in {KeysAfterGet(k1, hit)},
                 live \in {LiveAfterGet(hit)} :
                \A k2 \in Keys :
                  \A second \in {GetIn(tbl, keyOf, live, k2)} :
                    second # NoClass => Rel(k1, k2, first, second)

\* C5 as claimed: two calls of refcount_class_get on one refcount_t return
\* the same class for the same key and two classes for two distinct keys.
AsClaimed(k1, k2, first, second) ==
  /\ k1 = k2 => second = first
  /\ k1 # k2 => second # first

C5_SameKeySameClass == TwoGets(AsClaimed)

\* A key that resolves to a class of a refcount_t keeps resolving to it
\* as long as the refcount_t is not destroyed.
KeyKeepsClass ==
  \A r \in RCs :
    (rcLive[r] /\ rcLive'[r]) =>
      \A k \in Keys :
        \A c \in {Lookup(r, k)} :
          c # NoClass => ScanFrom(rcTable'[r], clsKey', k, 1) = c

\* C5 as amended: two calls of refcount_class_get on one refcount_t return
\* the same class for the same key, whatever is called in between, and two
\* classes for two keys that differ in one of their first REFCOUNT_KEY_MAX
\* characters.
AsAmended(k1, k2, first, second) ==
  /\ k1 = k2 => second = first
  /\ DifferEarly(k1, k2) => second # first

TwoGetsAgree == TwoGets(AsAmended)

C5_SameKeySameClassEarly ==
  [][TwoGetsAgree' /\ KeyKeepsClass]_vars

\* A refcount_t holds two classes, one of them for KeyA, and counts were
\* changed since.
C5_Witness ==
  \E r \in RCs :
    /\ rcLive[r] /\ Len(rcTable[r]) = 2
    /\ Lookup(r, KeyA) # NoClass /\ Lookup(r, KeyX1) # NoClass
    /\ \E c \in TableSet(r) : clsRef[c] # 0

\* ------------------------------------------------------------------- C6
RECURSIVE SumOver(_, _)
SumOver(f, S) ==
  IF S = {} THEN 0
  ELSE LET x == CHOOSE y \in S : TRUE IN f[x] + SumOver(f, S \ {x})

\* No thread is inside a call.
Quiescent == \A t \in AllThreads : pc[t] = "idle"

\* C6: operations run one at a time; as long as no refcount_dec took a
\* class count of a refcount_t below zero, its global count is the sum of
\* the deltas applied to its classes, which is the sum of their counts.
C6_GlobalIsNetSum ==
  \A r \in RCs :
    (Quiescent /\ rcLive[r] /\ SumOver(warned, TableSet(r)) = 0)
      => /\ rcRef[r] = SumOver(net, TableSet(r))
         /\ rcRef[r] = SumOver(clsRef, TableSet(r))

\* The calls so far were two increments of A, one of B and one decrement
\* of B.
C6_Witness == Quiescent /\ scen = 4 /\ rcRef[1] = 2

\* ------------------------------------------------------------------- C7
\* The classes of the first refcount_t for KeyA and KeyB.
ClassA == Lookup(1, KeyA)
ClassB == Lookup(1, KeyB)

\* C7: operations run one at a time; every class count is its increments
\* minus all of its decrements, and the global count is the sum over the
\* classes of the class count plus the diagnostics emitted for the class.
\* After A+2, B+1 the global count is 3; after B-2 more, the count of B is
\* -1, one diagnostic was emitted and the global count is 2.
C7_AccountingWithImbalance ==
  Quiescent
    => /\ \A c \in Classes : clsLive[c] => clsRef[c] = net[c]
       /\ \A r \in RCs :
            rcLive[r] => rcRef[r] = SumOver(clsRef, TableSet(r))
                                      + SumOver(warned, TableSet(r))
       /\ scen = 3 => refcount_read(1) = 3
       /\ scen = 5 => /\ refcount_class_read(ClassB) = -1
                      /\ refcount_class_read(ClassA) = 2
                      /\ warned[ClassB] = 1 /\ warned[ClassA] = 0
                      /\ refcount_read(1) = 2

\* The scenario has run to its end.
C7_Witness == Quiescent /\ scen = 5

\* ------------------------------------------------------------------- C8
\* C8: refcount_add(n, rcc) adds n to the class count and then n to the
\* global count for every n, negative n included; it checks nothing, emits
\* no diagnostic and never stops.
C8_AddIsUnchecked ==
  [][\A t \in AllThreads :
       /\ (pc[t] = "idle" /\ pc'[t] = "add_global")
            => /\ clsRef' = [clsRef EXCEPT ![loc'[t].rcc] = @ + loc'[t].n]
               /\ rcRef' = rcRef
               /\ warned' = warned
       /\ Leaves(t, "add_global")
            => /\ rcRef' = [rcRef EXCEPT ![RcOf(t)] = @ + loc[t].n]
               /\ clsRef' = clsRef
               /\ warned' = warned
               /\ pc'[t] = "idle"]_vars

\* A negative refcount_add has left a class count and the global count
\* negative, with no diagnostic.
C8_Witness ==
  \E c \in Classes :
    /\ Quiescent /\ clsLive[c]
    /\ clsRef[c] < 0 /\ warned[c] = 0 /\ rcRef[clsGlobal[c]] < 0

\* ------------------------------------------------------------------- C9
\* C9: a refcount_dec that found its class count >= 0 and then reads a
\* global count <= 0 stops for good without changing the global count or
\* restoring the class count; a refcount_dec lowers the global count only
\* after reading a value >= 1, and nothing else lowers it.
C9_FatalOnGlobalViolation ==
  [][/\ \A t \in AllThreads :
          /\ (Leaves(t, "dec_bugon") /\ refcount_read(RcOf(t)) <= 0)
               => pc'[t] = "BUG" /\ rcRef' = rcRef /\ clsRef' = clsRef
          /\ pc[t] = "BUG" => pc'[t] = "BUG" /\ loc'[t] = loc[t]
          /\ Leaves(t, "dec_global")
               => loc[t].obs >= 1 /\ rcRef'[RcOf(t)] = rcRef[RcOf(t)] - 1
     /\ \A r \in RCs :
          (rcLive'[r] /\ rcRef'[r] < rcRef[r])
            => \E t \in AllThreads : Leaves(t, "dec_global") /\ RcOf(t) = r]_vars

\* A refcount_dec has stopped in BUG_ON: its class count is >= 0 and the
\* global count it read was <= 0.
C9_Witness ==
  \E t \in AllThreads :
    pc[t] = "BUG" /\ loc[t].obs <= 0 /\ clsRef[loc[t].rcc] >= 0

\* ------------------------------------------------------------------ C10
\* The sequence s is the end of the sequence u.
IsSuffix(s, u) ==
  /\ Len(s) <= Len(u)
  /\ \A i \in 1..Len(s) : s[i] = u[Len(u) - Len(s) + i]

\* C10: as long as a refcount_t is not destroyed, its table only grows and
\* the classes in it stay allocated, with their key and their owner,
\* whatever their counts become.
C10_TableOnlyGrows ==
  [][\A r \in RCs :
       (rcLive[r] /\ rcLive'[r])
         => /\ IsSuffix(rcTable[r], rcTable'[r])
            /\ \A c \in TableSet(r) :
                 clsLive'[c] /\ clsGlobal'[c] = r /\ clsKey'[c] = clsKey[c]]_vars

\* A table holds a class whose count went negative and came back to zero
\* and a class whose count is negative.
C10_Witness ==
  \E r \in RCs : \E c, d \in TableSet(r) :
    /\ rcLive[r] /\ Quiescent
    /\ clsRef[c] = 0 /\ warned[c] >= 1
    /\ clsRef[d] < 0

\* ------------------------------------------------------------------ C11
\* refcount_destroy(r) runs.
Destroys(r) == refcount_destroy /\ rcLive[r] /\ ~rcLive'[r]

\* C11: refcount_destroy(r) can run whatever the counts are; after it, r
\* and every class of r are released, and the classes of the other
\* refcount_t objects, and these objects, are as they were.
C11_DestroyReleasesOwnClasses ==
  [][\A r \in RCs :
       /\ (rcLive[r] /\ InFlight(r) = {}) => ENABLED Destroys(r)
       /\ (rcLive[r] /\ ~rcLive'[r])
            => /\ \A c \in Classes : clsGlobal[c] = r => ~clsLive'[c]
               /\ \A c \in Classes :
                    (clsLive[c] /\ clsGlobal[c] # r)
                      => /\ clsLive'[c] /\ clsGlobal'[c] = clsGlobal[c]
                         /\ clsKey'[c] = clsKey[c] /\ clsRef'[c] = clsRef[c]
               /\ \A q \in RCs \ {r} :
                    /\ rcLive'[q] = rcLive[q] /\ rcRef'[q] = rcRef[q]
                    /\ rcTable'[q] = rcTable[q]]_vars

\* The first refcount_t and the first class were released; the second
\* refcount_t is live and holds the second class, whose count is not 0.
C11_Witness ==
  /\ Quiescent
  /\ ~rcLive[1] /\ ~clsLive[1]
  /\ rcLive[2] /\ clsLive[2] /\ clsGlobal[2] = 2 /\ clsRef[2] # 0 /\ rcRef[2] # 0

\* ------------------------------------------------------------------ C12
\* Thread t is inside a call that has updated the class count and has not
\* reached the end of line 131, 138 or 163.
Between(t) ==
  pc[t] \in {"inc_global", "add_global", "dec_check", "dec_bugon", "dec_global"}

\* No thread but t is inside a call.
Lone(t) == \A u \in AllThreads \ {t} : pc[u] = "idle"

\* The counts of the classes of r plus the decrements that warned and left
\* the global count alone: what the global count is when no call is in
\* flight.
Settled(r) ==
  SumOver([c \in Classes |-> clsRef[c] + warned[c]], TableSet(r))

\* The class counts hold the update of the call of t, the global count
\* does not.
ClassAhead(t) == Settled(RcOf(t)) = rcRef[RcOf(t)] + loc[t].n

\* The global count holds the update of the call of t, the class counts
\* do not.
GlobalAhead(t) == rcRef[RcOf(t)] = Settled(RcOf(t)) + loc[t].n

\* C12 as claimed: the two updates are not one atomic unit, and both orders
\* are seen: between the two updates of an increment or add the class count
\* holds the delta and the global count does not, and, vice versa, there
\* is a state in which the global count holds the delta of a call (of
\* refcount_dec, the other operation the claim is about) and the class
\* count does not.
C12_TornBothWays ==
  \A t \in AllThreads :
    (Between(t) /\ Lone(t))
      => IF loc[t].n > 0 THEN ClassAhead(t) ELSE GlobalAhead(t)

\* C12 as amended: the two updates are not one atomic unit; between them
\* the class count holds the delta of the call and the global count does
\* not, for increment, add and decrement alike, and never the reverse.
C12_TornClassFirst ==
  \A t \in AllThreads :
    (Between(t) /\ Lone(t)) => (ClassAhead(t) /\ ~GlobalAhead(t))

\* An increment is between its two updates: a reader gets 1 for the class
\* count and 0 for the global count.
C12_Witness ==
  \E t \in AllThreads :
    /\ pc[t] = "inc_global" /\ Lone(t)
    /\ refcount_class_read(loc[t].rcc) = 1
    /\ refcount_read(RcOf(t)) = 0

\* ------------------------------------------------------------------ C13
\* C13: a call of refcount_inc, refcount_add or refcount_dec first changes
\* the count of its class by its delta (+1, +n, -1) and nothing else; the
\* global count of a live refcount_t changes only in a later step of such a
\* call, on the refcount_t of its class, by the same delta, the class
\* counts staying as they are; no step changes the global count alone.
C13_ClassThenGlobal ==
  [][/\ \A t \in AllThreads :
          /\ (pc[t] = "idle" /\ pc'[t] # "idle")
               => /\ clsRef' = [clsRef EXCEPT ![loc'[t].rcc] = @ + loc'[t].n]
                  /\ loc'[t].n # 0
                  /\ rcRef' = rcRef
          /\ (pc[t] # "idle" /\ pc'[t] # "idle")
               => loc'[t].rcc = loc[t].rcc /\ loc'[t].n = loc[t].n
          /\ (pc[t] # "idle" /\ pc'[t] # pc[t]) => clsRef' = clsRef
     /\ \A r \in RCs :
          (rcLive'[r] /\ rcRef'[r] # rcRef[r])
            => \E t \in AllThreads :
                 /\ pc[t] \in {"inc_global", "add_global", "dec_global"}
                 /\ pc'[t] # pc[t]
                 /\ RcOf(t) = r
                 /\ rcRef'[r] = rcRef[r] + loc[t].n]_vars

\* A refcount_dec_and_test has lowered the global count after an add
\* raised it by more than one, no call is between its updates, and the
\* global count is what the classes hold.
C13_Witness ==
  \E t \in AllThreads :
    /\ pc[t] = "test_read" /\ loc[t].obs >= 2
    /\ \A u \in AllThreads : ~Between(u)
    /\ rcRef[RcOf(t)] = Settled(RcOf(t))

\* ------------------------------------------------------------------ C14
\* Thread t is back from a refcount_dec_and_test that lowered the global
\* count to v, and returns true.
WonAt(t, v) ==
  /\ pc[t] = "test_ret" /\ loc[t].ret
  /\ loc[t].obs >= 1 /\ loc[t].after = v

\* C14: refcount_dec_and_test decides on a read of the global count made
\* in a step of its own after refcount_dec has returned: it returns true
\* exactly when that read gives 0, whatever the count was right after its
\* own decrement, so two calls that together lower the count from 2 to 0
\* can both return true (C14_Witness).
C14_ZeroTestIsSeparateRead ==
  [][\A t \in AllThreads :
       Leaves(t, "test_read")
         => /\ loc'[t].ret <=> (refcount_read(RcOf(t)) = 0)
            /\ rcRef' = rcRef /\ clsRef' = clsRef
            /\ pc'[t] = "test_ret"]_vars

\* Two calls lowered the global count from 2 to 1 and from 1 to 0, and
\* both return true.
C14_Witness ==
  \E t, u \in AllThreads :
    /\ t # u
    /\ WonAt(t, 1) /\ WonAt(u, 0)
    /\ RcOf(t) = RcOf(u)
    /\ rcRef[RcOf(t)] = 0

\* ------------------------------------------------------------------ C15
\* Two distinct keys with the same first REFCOUNT_KEY_MAX characters.
Aliased(k1, k2) == k1 # k2 /\ ~DifferEarly(k1, k2)

AsAliased(k1, k2, first, second) == Aliased(k1, k2) => second = first

\* C15: a class holds the first REFCOUNT_KEY_MAX characters of the key it
\* was made for, and keys are compared on these characters only: two
\* distinct keys that agree on them resolve to the same class of a
\* refcount_t, in the table as it is and in two calls of refcount_class_get
\* made one after the other, so that one count serves both keys.
C15_LongKeysAlias ==
  /\ \A r \in RCs :
       rcLive[r] =>
         \A k1 \in Keys :
           \A c \in {Lookup(r, k1)} :
             /\ c # NoClass => clsKey[c] = Strncpy(k1, REFCOUNT_KEY_MAX)
             /\ \A k2 \in Keys : Aliased(k1, k2) => Lookup(r, k2) = c
  /\ TwoGets(AsAliased)

\* One class serves KeyX1 and KeyX2, and two increments were made on it.
C15_Witness ==
  /\ Quiescent /\ rcLive[1] /\ budget = 0
  /\ Lookup(1, KeyX1) # NoClass
  /\ Lookup(1, KeyX2) = Lookup(1, KeyX1)
  /\ refcount_class_read(Lookup(1, KeyX2)) = 2
  /\ refcount_read(1) = 2

\* ------------------------------------------------------------------ C16
\* No two classes of the table of r hold the same key.
UniqueKeys(r) ==
  \A i, j \in 1..Len(rcTable[r]) :
    i # j => clsKey[rcTable[r][i]] # clsKey[rcTable[r][j]]

\* C16: calls of refcount_class_get being made one at a time, the table of
\* a refcount_t never holds two classes with the same stored key; the
\* table of a refcount_t that stays allocated changes only by the insertion
\* at its head of one new class, whose key matches none of the keys in the
\* table, so a call that finds its key changes nothing.
C16_KeysUniquePerRefcount ==
  [][\A r \in RCs :
       /\ rcLive[r] => UniqueKeys(r)
       /\ rcLive'[r] => UniqueKeys(r)'
       /\ (rcLive[r] /\ rcLive'[r] /\ rcTable'[r] # rcTable[r])
            => \E c \in Classes :
                 /\ ~clsLive[c] /\ clsLive'[c] /\ clsGlobal'[c] = r
                 /\ rcTable'[r] = <<c>> \o rcTable[r]
                 /\ \A d \in TableSet(r) : ~KeyMatches(clsKey[d], clsKey'[c])
                 /\ \A d \in TableSet(r) : clsKey'[d] = clsKey[d]]_vars

\* The two refcount_t objects hold one class each, for the same key.
C16_Witness ==
  /\ rcLive[1] /\ rcLive[2]
  /\ Len(rcTable[1]) = 1 /\ Len(rcTable[2]) = 1
  /\ clsKey[rcTable[1][1]] = clsKey[rcTable[2][1]]
  /\ \E r \in RCs : rcRef[r] # 0

\* ------------------------------------------------------------------ C17
\* The warnings made for class c, the one a refcount_dec is about to make
\* at line 159 included.
Owed(c) ==
  warned[c] + (IF \E t \in AllThreads : pc[t] = "dec_check" /\ loc[t].rcc = c
                                        /\ Imbalanced(c)
               THEN 1 ELSE 0)

\* The delta of the refcount_inc or refcount_add under way on class c.
Pending(c) ==
  IF \E t \in AllThreads : pc[t] \in {"inc_global", "add_global"} /\ loc[t].rcc = c
  THEN loc[CHOOSE t \in AllThreads :
             pc[t] \in {"inc_global", "add_global"} /\ loc[t].rcc = c].n
  ELSE 0

\* A class of r was warned about and holds, in the calls that have
\* returned, more references than its count shows without these warnings:
\* an increment was applied to it while its count was negative.
Latched(r) ==
  \E c \in TableSet(r) :
    Owed(c) >= 1 /\ clsRef[c] + Owed(c) - Pending(c) >= 1

\* Thread t returns from a refcount_inc or a refcount_add with n >= 1 made
\* on a class whose count was negative.
Latches(t) ==
  /\ (Leaves(t, "inc_global") \/ Leaves(t, "add_global"))
  /\ loc[t].n >= 1
  /\ clsRef[loc[t].rcc] - loc[t].n < 0

\* C17: operations run one at a time, refcount_add with n >= 0.  Once a
\* refcount_inc, or a refcount_add with n >= 1, has been applied to a class
\* whose count was negative, the global count of its refcount_t is >= 1 in
\* every later state, whatever is called, until the refcount_t is
\* destroyed, and no refcount_dec_and_test on it returns true.
C17_ImbalanceLatched ==
  [][\A r \in RCs :
       \A was \in {Latched(r)}, is \in {Latched(r)'} :
         /\ \A t \in AllThreads : (Latches(t) /\ RcOf(t) = r) => is
         /\ (rcLive[r] /\ ~was /\ is)
              => \E t \in AllThreads : Latches(t) /\ RcOf(t) = r
         /\ (was /\ rcLive'[r]) => is
         /\ (rcLive[r] /\ was) => rcRef[r] >= 1
         /\ (rcLive'[r] /\ is) => rcRef'[r] >= 1
         /\ \A t \in AllThreads :
              (Leaves(t, "test_read") /\ RcOf(t) = r /\ was) => ~loc'[t].ret]_vars

\* An increment was applied to a negative class; no class of the
\* refcount_t holds a reference any more, and its global count is 1.
C17_Witness ==
  /\ Quiescent /\ rcLive[1] /\ Latched(1)
  /\ \A c \in TableSet(1) : clsRef[c] <= 0
  /\ rcRef[1] = 1

\* ------------------------------------------------------------------ C18
\* The references the classes of r hold: the sum of their positive counts.
Held(r) ==
  SumOver([c \in Classes |-> IF clsRef[c] > 0 THEN clsRef[c] ELSE 0], TableSet(r))

\* C18: operations run one at a time, refcount_add with n >= 0.  Between
\* calls the global count is at least the sum of the positive class counts;
\* a refcount_dec that left its class count >= 0 reads a global count >= 1
\* at line 162, one more than that sum at least, and BUG_ON never fires.
C18_NoBugWhenSequential ==
  /\ \A t \in AllThreads : pc[t] # "BUG"
  /\ \A r \in RCs : (Quiescent /\ rcLive[r]) => refcount_read(r) >= Held(r)
  /\ \A t \in AllThreads :
       pc[t] = "dec_bugon"
         => /\ refcount_class_read(loc[t].rcc) >= 0
            /\ ~BugCondition(RcOf(t))
            /\ refcount_read(RcOf(t)) >= Held(RcOf(t)) + 1

\* A refcount_dec took the last reference of its class and is at line 162
\* with a global count of 1, while another class was decremented too often.
C18_Witness ==
  \E t \in AllThreads :
    /\ pc[t] = "dec_bugon"
    /\ refcount_class_read(loc[t].rcc) = 0
    /\ refcount_read(RcOf(t)) = 1
    /\ \E c \in TableSet(RcOf(t)) : warned[c] >= 1

\* ------------------------------------------------------------------ C19
\* C19: a refcount_dec_and_test that finds its class count negative at
\* line 158 warns, leaves the global count alone and goes on to line 171;
\* if it reads a global count of 0 there, it returns true, although it did
\* not lower the global count.
C19_TrueAfterImbalance ==
  [][\A t \in AllThreads :
       /\ (Leaves(t, "dec_check") /\ loc[t].test /\ Imbalanced(loc[t].rcc))
            => /\ warned' = [warned EXCEPT ![loc[t].rcc] = @ + 1]
               /\ rcRef' = rcRef
               /\ pc'[t] = "test_read"
               /\ loc'[t].obs = 0
       /\ (Leaves(t, "test_read") /\ loc[t].obs = 0 /\ refcount_read(RcOf(t)) = 0)
            => /\ loc'[t].ret
               /\ rcRef' = rcRef
               /\ pc'[t] = "test_ret"]_vars

\* After an increment and a decrement of the only class, a third call, of
\* refcount_dec_and_test, warned and returns true; the global count is 0.
C19_Witness ==
  \E t \in AllThreads :
    /\ pc[t] = "test_ret" /\ loc[t].ret /\ loc[t].obs = 0
    /\ Lone(t) /\ budget = MaxOps - 3
    /\ Len(rcTable[RcOf(t)]) = 1
    /\ warned[loc[t].rcc] = 1
    /\ refcount_class_read(loc[t].rcc) = -1
    /\ refcount_read(RcOf(t)) = 0

\* ------------------------------------------------------------------ C20
\* The class of the call in which thread t takes a step.
ClassOfStep(t) == IF pc[t] = "idle" THEN loc'[t].rcc ELSE loc[t].rcc

\* The lines that read a counter and write none.
ReadLines == {"dec_check", "dec_bugon", "test_read", "test_ret"}

\* refcount_class_get(r, key) changes something.
GetChanges(r, key) == refcount_class_get({r}, {key}) /\ vars' # vars

\* C20: a step of refcount_inc, refcount_add, refcount_dec or
\* refcount_dec_and_test on class c changes no count but that of c and the
\* global count of the refcount_t of c, and leaves the tables, the keys,
\* the owners and the allocations as they are; the lines that read a count
\* change none.  refcount_class_get of a key that is in the table changes
\* nothing; of a new key, it changes no count and makes a class of count 0.
C20_Frame ==
  [][/\ \A t \in AllThreads :
          pc'[t] # pc[t]
            => /\ \A d \in Classes \ {ClassOfStep(t)} : clsRef'[d] = clsRef[d]
               /\ \A q \in RCs \ {clsGlobal[ClassOfStep(t)]} : rcRef'[q] = rcRef[q]
               /\ rcTable' = rcTable /\ rcLive' = rcLive
               /\ clsKey' = clsKey /\ clsGlobal' = clsGlobal /\ clsLive' = clsLive
               /\ pc[t] \in ReadLines => (rcRef' = rcRef /\ clsRef' = clsRef)
     /\ \A r \in RCs, key \in Keys :
          (rcLive[r] /\ Lookup(r, key) # NoClass) => ~ENABLED GetChanges(r, key)
     /\ \A c \in Classes :
          (~clsLive[c] /\ clsLive'[c])
            => /\ rcRef' = rcRef /\ rcLive' = rcLive
               /\ clsRef'[c] = 0
               /\ \A d \in Classes \ {c} :
                    /\ clsRef'[d] = clsRef[d] /\ clsKey'[d] = clsKey[d]
                    /\ clsGlobal'[d] = clsGlobal[d] /\ clsLive'[d] = clsLive[d]]_vars

\* Two refcount_t objects with one class each and different counts.
C20_Witness ==
  /\ Quiescent /\ rcLive[1] /\ rcLive[2]
  /\ Len(rcTable[1]) = 1 /\ Len(rcTable[2]) = 1
  /\ rcRef[1] = 1 /\ clsRef[rcTable[1][1]] = 1
  /\ rcRef[2] = 2 /\ clsRef[rcTable[2][1]] = 2

====
